---- MODULE Spec2Model ----
(***************************************************************************)
(* A model of apps/assets/models/asset/common.py: the node closure of an   *)
(* asset (NodesRelationMixin), the protocol setting resolver (Protocol),   *)
(* the layered info / secret_info views of an asset (Asset) and the        *)
(* secret-type classifier (Asset.get_secret_type_assets).                  *)
(*                                                                         *)
(* The four components do not read each other's state, so each has its own *)
(* specification over the shared variables; a specification leaves the     *)
(* variables of the other components at their idle initial value.          *)
(***************************************************************************)
EXTENDS Integers, Sequences, FiniteSets, TLC

VARIABLES
    assets,            \* Asset.objects: the ids of the asset rows / instances
    nodeKey,           \* Node.key of every node row
    assetNodes,        \* Asset.nodes: the many-to-many membership
    cache,             \* backend entries under ASSET_NODES_{id}
    catalog,           \* asset.platform.protocols: ordered {name, public, setting}
    protocol,          \* one Protocol instance: name, _setting, memoized lookup
    gathered_info,     \* Asset.gathered_info
    custom_info,       \* Asset.custom_info
    ext,               \* getattr(asset, asset.category, None)
    spec_info_memo,    \* value stored on the instance by lazyproperty spec_info
    secret_info_memo,  \* value stored on the instance by lazyproperty secret_info
    info_memo,         \* value stored on the instance by lazyproperty info
    protocols,         \* protocols__name of every asset row
    ret                \* the last call and what it returned

vars == <<assets, nodeKey, assetNodes, cache, catalog, protocol, gathered_info,
          custom_info, ext, spec_info_memo, secret_info_memo, info_memo,
          protocols, ret>>

nodeVars == <<nodeKey, assetNodes, cache>>
protoVars == <<catalog, protocol>>
infoVars == <<gathered_info, custom_info, ext, spec_info_memo, secret_info_memo, info_memo>>

----------------------------------------------------------------------------
(* Bounds and universes *)

\* Longest node key, in path segments.
MaxDepth == 3

\* Longest platform protocol catalog.
MaxCatalog == 2

\* Values a path segment takes.
Segs == {1, 2}

\* Asset ids; which of them exist is the variable assets.
AssetIds == {"a1", "a2", "a3"}

NodeIds == {"root", "n1", "n2"}

\* Python's None, and a value that is not None.
None == [none |-> TRUE]

Some(v) == [some |-> v]

IsNone(o) == DOMAIN o = {"none"}

\* A call that returned nothing (a mutation).
NoRet == [op |-> "none"]

\* Python's {}.
EmptyMap == [x \in {} |-> None]

\* dict.get(key, default)
Get(d, key, default) == IF key \in DOMAIN d THEN d[key] ELSE default

\* dict.update(other): the keys of other overwrite.
Update(d, other) ==
    [x \in DOMAIN d \cup DOMAIN other |-> IF x \in DOMAIN other THEN other[x] ELSE d[x]]

----------------------------------------------------------------------------
(* NodesRelationMixin *)

\* Node keys: paths of segments below the organization root "1".
KeySpace == {k \in UNION {[1..d -> Segs] : d \in 1..MaxDepth} : k[1] = 1}

\* Node.org_root(): the organization root node.
org_root == "root"

\* A node entity as a queryset yields it.
Node(n) == [id |-> n, key |-> nodeKey[n]]

\* Node.get_ancestor_keys(with_self): the prefixes of key at each segment boundary.
get_ancestor_keys(key, with_self) ==
    {SubSeq(key, 1, i) : i \in 1..(IF with_self THEN Len(key) ELSE Len(key) - 1)}

get_nodes_no_fallback(a) == assetNodes[a]

\* get_nodes: self.nodes.all(), or the organization root when that is empty.
get_nodes(a) ==
    LET nodes == assetNodes[a]
    IN  IF nodes = {} THEN {n \in NodeIds : n = org_root} ELSE nodes

get_all_node_keys_cache_first(a) ==
    IF ~IsNone(cache[a])
    THEN cache[a].some
    ELSE UNION {get_ancestor_keys(nodeKey[n], TRUE) : n \in get_nodes(a)}

\* get_all_node_keys: the union of the ancestor keys of the direct nodes.
get_all_node_keys(a) ==
    UNION {get_ancestor_keys(nodeKey[n], TRUE) : n \in get_nodes(a)}

\* get_all_nodes: Node.objects.filter(key__in=node_keys).distinct(), or the ids.
get_all_nodes(a, flat) ==
    LET node_keys == get_all_node_keys(a)
        nodes == {n \in NodeIds : nodeKey[n] \in node_keys}
    IN  IF ~flat THEN {Node(n) : n \in nodes} ELSE nodes

get_all_nodes_for_assets_first_only(batch) ==
    LET node_keys == IF batch = {} THEN {}
                     ELSE get_all_node_keys(CHOOSE a \in batch : TRUE)
    IN  {Node(n) : n \in {m \in NodeIds : nodeKey[m] \in node_keys}}

\* get_all_nodes_for_assets: one lookup over the union of the assets' keys.
get_all_nodes_for_assets(batch) ==
    LET node_keys == UNION {get_all_node_keys(a) : a \in batch}
    IN  {Node(n) : n \in {m \in NodeIds : nodeKey[m] \in node_keys}}

\* asset.nodes.add(node)
NodesAdd(a, n) ==
    /\ n \notin assetNodes[a]
    /\ assetNodes' = [assetNodes EXCEPT ![a] = @ \cup {n}]
    /\ ret' = NoRet
    /\ UNCHANGED <<assets, nodeKey, cache, protoVars, infoVars, protocols>>

\* asset.nodes.remove(node)
NodesRemove(a, n) ==
    /\ n \in assetNodes[a]
    /\ assetNodes' = [assetNodes EXCEPT ![a] = @ \ {n}]
    /\ ret' = NoRet
    /\ UNCHANGED <<assets, nodeKey, cache, protoVars, infoVars, protocols>>

\* A node other than the organization root is given another, unused key.
Reparent(n, k) ==
    /\ n # org_root
    /\ \A m \in NodeIds : nodeKey[m] # k
    /\ nodeKey' = [nodeKey EXCEPT ![n] = k]
    /\ ret' = NoRet
    /\ UNCHANGED <<assets, assetNodes, cache, protoVars, infoVars, protocols>>

GetNodes(a) ==
    /\ ret' = [op |-> "get_nodes", asset |-> a, val |-> {Node(n) : n \in get_nodes(a)}]
    /\ UNCHANGED <<assets, nodeVars, protoVars, infoVars, protocols>>

GetAllNodes(a, flat) ==
    /\ ret' = [op |-> "get_all_nodes", asset |-> a, flat |-> flat,
               val |-> get_all_nodes(a, flat)]
    /\ UNCHANGED <<assets, nodeVars, protoVars, infoVars, protocols>>

GetAllNodesForAssets(batch) ==
    /\ ret' = [op |-> "get_all_nodes_for_assets", batch |-> batch,
               val |-> get_all_nodes_for_assets(batch)]
    /\ UNCHANGED <<assets, nodeVars, protoVars, infoVars, protocols>>

\* cache.set(ASSET_NODES_{id}, keys): a writer stores the keys as they are now.
CacheSet(a) ==
    /\ cache' = [cache EXCEPT ![a] = Some(get_all_node_keys(a))]
    /\ cache'[a] # cache[a]
    /\ ret' = NoRet
    /\ UNCHANGED <<assets, nodeKey, assetNodes, protoVars, infoVars, protocols>>

\* cache.delete(ASSET_NODES_{id}), or the entry's expiry.
CacheEvict(a) ==
    /\ ~IsNone(cache[a])
    /\ cache' = [cache EXCEPT ![a] = None]
    /\ ret' = NoRet
    /\ UNCHANGED <<assets, nodeKey, assetNodes, protoVars, infoVars, protocols>>

----------------------------------------------------------------------------
(* Protocol *)

\* Protocol names a platform declares, and one it does not.
CatalogNames == {"ssh", "rdp"}

ProtocolNames == CatalogNames \cup {"vnc"}

\* Setting maps: {}, {"x": 1}, {"y": 2}.
X1 == [x |-> 1]

Y2 == [y |-> 2]

CatalogEntries ==
    [name : CatalogNames, public : BOOLEAN, setting : {EmptyMap, X1}]

\* The catalogs of a platform: ordered, names may repeat.
Catalogs == UNION {[1..n -> CatalogEntries] : n \in 0..MaxCatalog}

\* What a caller assigns to protocol.setting.
Overrides == {None, Some(EmptyMap), Some(X1), Some(Y2)}

\* common.utils.lazyproperty: the value stored on the instance by the first
\* read, else the value the function computes now.
lazyproperty(memo, value) == IF ~IsNone(memo) THEN memo.some ELSE value

asset_platform_protocol_last_match ==
    lazyproperty(protocol.asset_platform_protocol,
        LET matching == SelectSeq(catalog, LAMBDA p : p.name = protocol.name)
        IN  IF Len(matching) > 0 THEN matching[Len(matching)] ELSE EmptyMap)

\* asset_platform_protocol: the first catalog entry of that name, or {}.
asset_platform_protocol ==
    lazyproperty(protocol.asset_platform_protocol,
        LET matching == SelectSeq(catalog, LAMBDA p : p.name = protocol.name)
        IN  IF Len(matching) > 0 THEN matching[1] ELSE EmptyMap)

setting_if_truthy ==
    IF ~IsNone(protocol._setting) /\ protocol._setting.some # EmptyMap
    THEN protocol._setting.some
    ELSE Get(asset_platform_protocol, "setting", EmptyMap)

\* setting (getter): the override when it is not None, else the catalog's.
setting ==
    IF ~IsNone(protocol._setting)
    THEN protocol._setting.some
    ELSE Get(asset_platform_protocol, "setting", EmptyMap)

\* public: the catalog's flag, True without an entry.
public == Get(asset_platform_protocol, "public", TRUE)

\* setting (setter): protocol.setting = value; None clears the override.
SetSetting(value) ==
    /\ value # protocol._setting
    /\ protocol' = [protocol EXCEPT !._setting = value]
    /\ ret' = NoRet
    /\ UNCHANGED <<assets, nodeVars, catalog, infoVars, protocols>>

\* A read of protocol.setting; the catalog lookup is evaluated, and stored on
\* the instance, only when there is no override.
ReadSetting ==
    /\ ret' = [op |-> "setting", val |-> setting]
    /\ protocol' = IF ~IsNone(protocol._setting) THEN protocol
                   ELSE [protocol EXCEPT
                            !.asset_platform_protocol = Some(asset_platform_protocol)]
    /\ UNCHANGED <<assets, nodeVars, catalog, infoVars, protocols>>

\* A read of protocol.public.
ReadPublic ==
    /\ ret' = [op |-> "public", val |-> public]
    /\ protocol' = [protocol EXCEPT
                        !.asset_platform_protocol = Some(asset_platform_protocol)]
    /\ UNCHANGED <<assets, nodeVars, catalog, infoVars, protocols>>

----------------------------------------------------------------------------
(* Asset: spec_info, secret_info, info *)

\* Values of a map or a field: a str, a native dict, and a str that holds
\* the JSON encoding of a dict.
Str(x) == [t |-> "str", v |-> x]

Dict(x) == [t |-> "dict", v |-> x]

JsonStr(x) == [t |-> "jsonstr", v |-> x]

\* json.loads: defined on JSON text only.
json_loads(v) == CASE v.t = "jsonstr" -> Dict(v.v)

\* A model field: its name, isinstance(i, models.JSONField) and
\* isinstance(i, EncryptMixin).
Field(name, json, encrypt) == [name |-> name, json |-> json, encrypt |-> encrypt]

\* _meta.local_fields of a category extension without fields of its own, and
\* of one with a plain, a JSON, an encrypted and an encrypted JSON field.
HostFields == <<Field("asset_ptr", FALSE, FALSE)>>

DatabaseFields ==
    <<Field("asset_ptr", FALSE, FALSE), Field("k", FALSE, FALSE),
      Field("m", TRUE, FALSE), Field("pw", FALSE, TRUE), Field("token", TRUE, TRUE)>>

Host == [local_fields |-> HostFields, values |-> [asset_ptr |-> Str("asset")]]

Database(k, m, pw, token) ==
    [local_fields |-> DatabaseFields,
     values |-> [asset_ptr |-> Str("asset"), k |-> k, m |-> m, pw |-> pw, token |-> token]]

\* What getattr(asset, asset.category, None) can be. In the second database
\* the plain field k holds text that happens to be JSON.
Extensions ==
    {None, Some(Host),
     Some(Database(Str("s"), Dict("d"), Str("p1"), JsonStr("e"))),
     Some(Database(JsonStr("d"), JsonStr("d"), Str("p2"), Dict("e")))}

\* Keys of the free-form maps: k is also a structured field, h is not.
InfoKeys == {"k", "h"}

GatheredInfos == {[x \in D |-> Str("g")] : D \in SUBSET InfoKeys}

CustomInfos == {[x \in D |-> Str("c")] : D \in SUBSET InfoKeys}

\* get_spec_values: the value of every field, a JSON field's text decoded.
get_spec_values(instance, fields) ==
    [name \in {fields[i].name : i \in DOMAIN fields} |->
        LET i == CHOOSE j \in DOMAIN fields : fields[j].name = name
            v == instance.values[name]
        IN  IF fields[i].json /\ v.t \notin {"list", "dict"} THEN json_loads(v) ELSE v]

get_spec_fields_ignore_secret(instance, secret) ==
    SelectSeq(instance.local_fields, LAMBDA i : i.name # "asset_ptr")

\* get_spec_fields: the local fields but asset_ptr, encrypted ones iff secret.
get_spec_fields(instance, secret) ==
    LET spec_fields == SelectSeq(instance.local_fields, LAMBDA i : i.name # "asset_ptr")
    IN  SelectSeq(spec_fields, LAMBDA i : i.encrypt = secret)

\* spec_info (lazyproperty)
spec_info(a) ==
    lazyproperty(spec_info_memo[a],
        LET instance == ext[a]
        IN  IF IsNone(instance) THEN EmptyMap
            ELSE get_spec_values(instance.some, get_spec_fields(instance.some, FALSE)))

\* secret_info (lazyproperty)
secret_info(a) ==
    lazyproperty(secret_info_memo[a],
        LET instance == ext[a]
        IN  IF IsNone(instance) THEN EmptyMap
            ELSE get_spec_values(instance.some, get_spec_fields(instance.some, TRUE)))

info_not_memoized(a) ==
    Update(Update(Update(EmptyMap, gathered_info[a]), custom_info[a]), spec_info(a))

info_custom_last(a) ==
    lazyproperty(info_memo[a],
        Update(Update(Update(EmptyMap, gathered_info[a]), spec_info(a)), custom_info[a]))

info_empty_without_instance(a) ==
    lazyproperty(info_memo[a],
        IF IsNone(ext[a]) THEN EmptyMap
        ELSE Update(Update(Update(EmptyMap, gathered_info[a]), custom_info[a]),
                    spec_info(a)))

\* info (lazyproperty): gathered, then custom, then spec_info.
info(a) ==
    lazyproperty(info_memo[a],
        Update(Update(Update(EmptyMap, gathered_info[a]), custom_info[a]), spec_info(a)))

\* asset.gathered_info = value
SetGatheredInfo(a, value) ==
    /\ value # gathered_info[a]
    /\ gathered_info' = [gathered_info EXCEPT ![a] = value]
    /\ ret' = NoRet
    /\ UNCHANGED <<assets, nodeVars, protoVars, custom_info, ext, spec_info_memo,
                   secret_info_memo, info_memo, protocols>>

\* asset.custom_info = value
SetCustomInfo(a, value) ==
    /\ value # custom_info[a]
    /\ custom_info' = [custom_info EXCEPT ![a] = value]
    /\ ret' = NoRet
    /\ UNCHANGED <<assets, nodeVars, protoVars, gathered_info, ext, spec_info_memo,
                   secret_info_memo, info_memo, protocols>>

\* The category extension of the instance is replaced, removed or edited.
SetExtension(a, value) ==
    /\ value # ext[a]
    /\ ext' = [ext EXCEPT ![a] = value]
    /\ ret' = NoRet
    /\ UNCHANGED <<assets, nodeVars, protoVars, gathered_info, custom_info,
                   spec_info_memo, secret_info_memo, info_memo, protocols>>

\* A read of asset.spec_info.
ReadSpecInfo(a) ==
    /\ ret' = [op |-> "spec_info", asset |-> a, val |-> spec_info(a)]
    /\ spec_info_memo' = [spec_info_memo EXCEPT ![a] = Some(spec_info(a))]
    /\ UNCHANGED <<assets, nodeVars, protoVars, gathered_info, custom_info, ext,
                   secret_info_memo, info_memo, protocols>>

\* A read of asset.secret_info.
ReadSecretInfo(a) ==
    /\ ret' = [op |-> "secret_info", asset |-> a, val |-> secret_info(a)]
    /\ secret_info_memo' = [secret_info_memo EXCEPT ![a] = Some(secret_info(a))]
    /\ UNCHANGED <<assets, nodeVars, protoVars, gathered_info, custom_info, ext,
                   spec_info_memo, info_memo, protocols>>

\* A read of asset.info; spec_info is read by it when info is computed.
ReadInfo(a) ==
    /\ ret' = [op |-> "info", asset |-> a, val |-> info(a)]
    /\ info_memo' = [info_memo EXCEPT ![a] = Some(info(a))]
    /\ spec_info_memo' = IF ~IsNone(info_memo[a]) THEN spec_info_memo
                         ELSE [spec_info_memo EXCEPT ![a] = Some(spec_info(a))]
    /\ UNCHANGED <<assets, nodeVars, protoVars, gathered_info, custom_info, ext,
                   secret_info_memo, protocols>>

\* The asset is loaded again: a fresh instance, no lazyproperty read yet.
Refresh(a) ==
    /\ ~(IsNone(spec_info_memo[a]) /\ IsNone(secret_info_memo[a]) /\ IsNone(info_memo[a]))
    /\ spec_info_memo' = [spec_info_memo EXCEPT ![a] = None]
    /\ secret_info_memo' = [secret_info_memo EXCEPT ![a] = None]
    /\ info_memo' = [info_memo EXCEPT ![a] = None]
    /\ ret' = NoRet
    /\ UNCHANGED <<assets, nodeVars, protoVars, gathered_info, custom_info, ext, protocols>>

----------------------------------------------------------------------------
(* Asset.get_secret_type_assets *)

\* Protocol names of asset rows; custom is not in the static table.
RowProtocolNames == {"ssh", "vnc", "custom"}

SecretTypes == {"password", "ssh_key", "vnc_password", "token"}

\* protocols__name of the row the join yields for an asset without protocols.
NoProtocol == "None"

\* The order a queryset of assets iterates in.
AssetOrder == <<"a1", "a2", "a3">>

\* const.Protocol.protocol_secret_types(): protocol name -> secret types.
protocol_secret_types == [ssh |-> {"password", "ssh_key"}, vnc |-> {"vnc_password"}]

get_secret_type_assets_all_rows(asset_ids, secret_type) ==
    LET assets_list == SelectSeq(AssetOrder, LAMBDA a : a \in assets)
        asset_protocol ==
            UNION {IF protocols[a] = {} THEN {<<a, NoProtocol>>}
                   ELSE {<<a, name>> : name \in protocols[a]}
                   : a \in {assets_list[i] : i \in DOMAIN assets_list}}
        asset_secret_types_mapp ==
            [asset_id \in {row[1] : row \in asset_protocol} |->
                UNION {Get(protocol_secret_types, row[2], {})
                       : row \in {r \in asset_protocol : r[1] = asset_id}}]
    IN  SelectSeq(assets_list,
                  LAMBDA a : secret_type \in Get(asset_secret_types_mapp, a, {}))

\* get_secret_type_assets: the assets of asset_ids with a protocol whose
\* secret types include secret_type.
get_secret_type_assets(asset_ids, secret_type) ==
    LET assets_list == SelectSeq(AssetOrder, LAMBDA a : a \in assets /\ a \in asset_ids)
        asset_protocol ==
            UNION {IF protocols[a] = {} THEN {<<a, NoProtocol>>}
                   ELSE {<<a, name>> : name \in protocols[a]}
                   : a \in {assets_list[i] : i \in DOMAIN assets_list}}
        asset_secret_types_mapp ==
            [asset_id \in {row[1] : row \in asset_protocol} |->
                UNION {Get(protocol_secret_types, row[2], {})
                       : row \in {r \in asset_protocol : r[1] = asset_id}}]
    IN  SelectSeq(assets_list,
                  LAMBDA a : secret_type \in Get(asset_secret_types_mapp, a, {}))

\* Asset.objects.create(...)
CreateAsset(a) ==
    /\ a \notin assets
    /\ assets' = assets \cup {a}
    /\ ret' = NoRet
    /\ UNCHANGED <<nodeVars, protoVars, infoVars, protocols>>

\* asset.delete(): its Protocol rows go with it (on_delete=CASCADE).
DeleteAsset(a) ==
    /\ a \in assets
    /\ assets' = assets \ {a}
    /\ protocols' = [protocols EXCEPT ![a] = {}]
    /\ ret' = NoRet
    /\ UNCHANGED <<nodeVars, protoVars, infoVars>>

\* A Protocol row of that name is created for the asset.
ProtocolAdd(a, name) ==
    /\ a \in assets
    /\ name \notin protocols[a]
    /\ protocols' = [protocols EXCEPT ![a] = @ \cup {name}]
    /\ ret' = NoRet
    /\ UNCHANGED <<assets, nodeVars, protoVars, infoVars>>

\* The asset's Protocol rows of that name are deleted.
ProtocolRemove(a, name) ==
    /\ a \in assets
    /\ name \in protocols[a]
    /\ protocols' = [protocols EXCEPT ![a] = @ \ {name}]
    /\ ret' = NoRet
    /\ UNCHANGED <<assets, nodeVars, protoVars, infoVars>>

GetSecretTypeAssets(asset_ids, secret_type) ==
    /\ ret' = [op |-> "get_secret_type_assets", asset_ids |-> asset_ids,
               secret_type |-> secret_type,
               val |-> get_secret_type_assets(asset_ids, secret_type)]
    /\ UNCHANGED <<assets, nodeVars, protoVars, infoVars, protocols>>

----------------------------------------------------------------------------
(* Idle initial values *)

NodesIdle ==
    /\ nodeKey = [n \in NodeIds |-> IF n = "root" THEN <<1>>
                                    ELSE IF n = "n1" THEN <<1, 1>> ELSE <<1, 2>>]
    /\ assetNodes = [a \in AssetIds |-> IF a = "a1" THEN {"n1"} ELSE {}]
    /\ cache = [a \in AssetIds |-> None]

ProtocolIdle ==
    /\ catalog = << >>
    /\ protocol = [name |-> "ssh", _setting |-> None, asset_platform_protocol |-> None]

InfoIdle ==
    /\ gathered_info = [a \in AssetIds |-> EmptyMap]
    /\ custom_info = [a \in AssetIds |-> EmptyMap]
    /\ ext = [a \in AssetIds |-> None]
    /\ spec_info_memo = [a \in AssetIds |-> None]
    /\ secret_info_memo = [a \in AssetIds |-> None]
    /\ info_memo = [a \in AssetIds |-> None]

ClassifierIdle ==
    /\ protocols = [a \in AssetIds |-> {}]

----------------------------------------------------------------------------
(* The node hierarchy: two assets, no cache traffic *)

Init ==
    /\ assets = {"a1", "a2"}
    /\ NodesIdle /\ ProtocolIdle /\ InfoIdle /\ ClassifierIdle
    /\ ret = NoRet

Next ==
    \/ \E a \in assets, n \in NodeIds : NodesAdd(a, n)
    \/ \E a \in assets, n \in NodeIds : NodesRemove(a, n)
    \/ \E n \in NodeIds, k \in KeySpace : Reparent(n, k)
    \/ \E a \in assets : GetNodes(a)
    \/ \E a \in assets, flat \in BOOLEAN : GetAllNodes(a, flat)
    \/ \E batch \in SUBSET assets : GetAllNodesForAssets(batch)

Spec == Init /\ [][Next]_vars

(* The node hierarchy of one asset with cache traffic *)

InitCache ==
    /\ assets = {"a1"}
    /\ NodesIdle /\ ProtocolIdle /\ InfoIdle /\ ClassifierIdle
    /\ ret = NoRet

NextCache ==
    \/ \E a \in assets, n \in NodeIds : NodesAdd(a, n)
    \/ \E a \in assets, n \in NodeIds : NodesRemove(a, n)
    \/ \E n \in NodeIds, k \in KeySpace : Reparent(n, k)
    \/ \E a \in assets : GetAllNodes(a, FALSE)
    \/ \E a \in assets : CacheSet(a)
    \/ \E a \in assets : CacheEvict(a)

SpecCache == InitCache /\ [][NextCache]_vars

(* One Protocol instance of an asset whose platform has any catalog *)

InitProtocol ==
    /\ assets = {"a1"}
    /\ NodesIdle /\ InfoIdle /\ ClassifierIdle
    /\ catalog \in Catalogs
    /\ \E name \in ProtocolNames :
        protocol = [name |-> name, _setting |-> None, asset_platform_protocol |-> None]
    /\ ret = NoRet

NextProtocol ==
    \/ \E value \in Overrides : SetSetting(value)
    \/ ReadSetting
    \/ ReadPublic

SpecProtocol == InitProtocol /\ [][NextProtocol]_vars

(* One asset instance: its layers change and its views are read *)

InitInfo ==
    /\ assets = {"a1"}
    /\ NodesIdle /\ ProtocolIdle /\ InfoIdle /\ ClassifierIdle
    /\ ret = NoRet

NextInfo ==
    \/ \E a \in assets, value \in GatheredInfos : SetGatheredInfo(a, value)
    \/ \E a \in assets, value \in CustomInfos : SetCustomInfo(a, value)
    \/ \E a \in assets, value \in Extensions : SetExtension(a, value)
    \/ \E a \in assets : ReadSpecInfo(a)
    \/ \E a \in assets : ReadInfo(a)
    \/ \E a \in assets : Refresh(a)

SpecInfo == InitInfo /\ [][NextInfo]_vars

(* Two asset instances and their secret_info *)

InitSecretInfo ==
    /\ assets = {"a1", "a2"}
    /\ NodesIdle /\ ProtocolIdle /\ InfoIdle /\ ClassifierIdle
    /\ ret = NoRet

NextSecretInfo ==
    \/ \E a \in assets, value \in GatheredInfos : SetGatheredInfo(a, value)
    \/ \E a \in assets, value \in CustomInfos : SetCustomInfo(a, value)
    \/ \E a \in assets, value \in Extensions : SetExtension(a, value)
    \/ \E a \in assets : ReadSecretInfo(a)
    \/ \E a \in assets : Refresh(a)

SpecSecretInfo == InitSecretInfo /\ [][NextSecretInfo]_vars

(* The asset rows, their protocols and the classifier *)

InitClassifier ==
    /\ assets = {"a1", "a2"}
    /\ NodesIdle /\ ProtocolIdle /\ InfoIdle /\ ClassifierIdle
    /\ ret = NoRet

NextClassifier ==
    \/ \E a \in AssetIds : CreateAsset(a)
    \/ \E a \in AssetIds : DeleteAsset(a)
    \/ \E a \in AssetIds, name \in RowProtocolNames : ProtocolAdd(a, name)
    \/ \E a \in AssetIds, name \in RowProtocolNames : ProtocolRemove(a, name)
    \/ \E asset_ids \in SUBSET AssetIds, secret_type \in SecretTypes :
        GetSecretTypeAssets(asset_ids, secret_type)

SpecClassifier == InitClassifier /\ [][NextClassifier]_vars

----------------------------------------------------------------------------
(* Claims on the node hierarchy *)

IsPrefix(p, k) == Len(p) <= Len(k) /\ SubSeq(k, 1, Len(p)) = p

\* The nodes whose key is a prefix of the key of a direct node of a, the
\* organization root standing in for an empty membership.
Closure(a) ==
    LET direct == IF assetNodes[a] = {} THEN {org_root} ELSE assetNodes[a]
    IN  {n \in NodeIds : \E m \in direct : IsPrefix(nodeKey[n], nodeKey[m])}

\* C1: the node set get_all_nodes_for_assets returns for a batch of assets
\* (two assets, or any finite collection, the empty one included) is the
\* union of what get_all_nodes returns for each asset of the batch.
C1_BatchedIsUnionOfPerAsset ==
    ret.op = "get_all_nodes_for_assets" =>
        ret.val = UNION {get_all_nodes(a, FALSE) : a \in ret.batch}

\* A batch of two assets whose closures both contribute nodes the other lacks.
C1_Witness ==
    /\ ret.op = "get_all_nodes_for_assets"
    /\ ret.batch = {"a1", "a2"}
    /\ get_all_nodes("a1", FALSE) \ get_all_nodes("a2", FALSE) # {}
    /\ get_all_nodes("a2", FALSE) \ get_all_nodes("a1", FALSE) # {}
    /\ ret.val = get_all_nodes("a1", FALSE) \cup get_all_nodes("a2", FALSE)

\* C2: get_nodes returns the asset's nodes when there are any and exactly the
\* organization root otherwise, so never the empty set; and get_all_nodes of
\* an asset left with no nodes is get_all_nodes of an asset whose only node
\* is the organization root.
C2_DirectNodesNeverEmpty ==
    /\ ret.op = "get_nodes" =>
        /\ ret.val # {}
        /\ ret.val = IF assetNodes[ret.asset] # {}
                     THEN {Node(n) : n \in assetNodes[ret.asset]}
                     ELSE {Node(org_root)}
    /\ (ret.op = "get_all_nodes" /\ assetNodes[ret.asset] = {}) =>
        LET rootOnly == {n \in NodeIds :
                            nodeKey[n] \in get_ancestor_keys(nodeKey[org_root], TRUE)}
        IN  ret.val = IF ret.flat THEN rootOnly ELSE {Node(n) : n \in rootOnly}

\* a1 starts as a member of n1: its membership was removed, and the closure
\* asked for afterwards is that of the organization root.
C2_Witness ==
    /\ ret.op = "get_all_nodes"
    /\ ret.asset = "a1"
    /\ ~ret.flat
    /\ assetNodes["a1"] = {}
    /\ ret.val = {Node(org_root)}

C9_ResultIsRecomputedClosure ==
    ret.op = "get_all_nodes" =>
        ret.val = IF ret.flat THEN Closure(ret.asset)
                  ELSE {Node(n) : n \in Closure(ret.asset)}

C9_EvictionKeepsResult ==
    \A a \in assets :
        (~IsNone(cache[a]) /\ IsNone(cache'[a]) /\ UNCHANGED <<nodeKey, assetNodes>>)
            => get_all_nodes(a, FALSE)' = get_all_nodes(a, FALSE)

\* C9: whatever the cache holds under ASSET_NODES_{id} (nothing, the current
\* keys, keys of before a mutation), get_all_nodes returns the closure
\* recomputed from the current node keys and the asset's current membership;
\* and a step that only evicts the entry leaves the result of get_all_nodes
\* as it was. (Stated of every step's end state; no call has returned in
\* the initial state.)
C9_CacheTransparent ==
    [][C9_ResultIsRecomputedClosure' /\ C9_EvictionKeepsResult]_vars

\* get_all_nodes was called while the cache held keys that are no longer the
\* asset's keys.
C9_Witness ==
    /\ ret.op = "get_all_nodes"
    /\ ~IsNone(cache[ret.asset])
    /\ cache[ret.asset].some # get_all_node_keys(ret.asset)
    /\ ~ret.flat
    /\ ret.val = {Node(n) : n \in Closure(ret.asset)}

----------------------------------------------------------------------------
(* Claims on the protocol resolver *)

\* The first catalog entry whose name is the protocol's, if any.
FirstMatch ==
    LET hits == {i \in 1..Len(catalog) : catalog[i].name = protocol.name}
    IN  IF hits = {} THEN None
        ELSE Some(catalog[CHOOSE i \in hits : \A j \in hits : i <= j])

\* C3: a read of setting returns the override unchanged whenever the instance
\* carries one, the empty map included, whatever the catalog holds; without
\* an override it returns the setting of the first catalog entry of the
\* protocol's name, and the empty map when no entry has that name.
C3_SettingResolution ==
    ret.op = "setting" =>
        ret.val = IF ~IsNone(protocol._setting) THEN protocol._setting.some
                  ELSE IF IsNone(FirstMatch) THEN EmptyMap
                  ELSE FirstMatch.some.setting

\* An empty-map override was returned although the catalog declares a
\* non-empty setting for that name.
C3_Witness ==
    /\ ret.op = "setting"
    /\ protocol._setting = Some(EmptyMap)
    /\ ~IsNone(FirstMatch)
    /\ FirstMatch.some.setting = X1
    /\ ret.val = EmptyMap

C4_PublicIsFirstMatch ==
    ret.op = "public" =>
        ret.val = IF IsNone(FirstMatch) THEN TRUE ELSE FirstMatch.some.public

C4_OverrideKeepsPublic ==
    protocol'._setting # protocol._setting => public' = public

\* C4: a read of public returns the public flag of the first catalog entry of
\* the protocol's name, and true when no entry has that name; setting or
\* clearing the override never changes it. (Stated of every step's end
\* state; no call has returned in the initial state.)
C4_PublicResolution ==
    [][C4_PublicIsFirstMatch' /\ C4_OverrideKeepsPublic]_vars

\* Two entries of the protocol's name disagree on public; the first one's
\* flag was returned, with an override set on the instance.
C4_Witness ==
    /\ ret.op = "public"
    /\ Len(catalog) = 2
    /\ catalog[1].name = protocol.name
    /\ catalog[2].name = protocol.name
    /\ catalog[1].public # catalog[2].public
    /\ ~IsNone(protocol._setting)
    /\ ret.val = catalog[1].public

----------------------------------------------------------------------------
(* Claims on info and secret_info *)

\* The fields of extension e other than the asset back-pointer that are
\* encrypted (secret) or not, each with its value as a native structure.
Layer(e, secret) ==
    IF IsNone(e) THEN EmptyMap
    ELSE LET fields == {e.some.local_fields[i] : i \in DOMAIN e.some.local_fields}
             kept == {f \in fields : f.name # "asset_ptr" /\ (f.encrypt <=> secret)}
         IN  [name \in {f.name : f \in kept} |->
                LET f == CHOOSE g \in kept : g.name = name
                    v == e.some.values[name]
                IN  IF f.json /\ v.t = "jsonstr" THEN Dict(v.v) ELSE v]

\* The structured layer an instance merges: spec_info as the instance holds
\* it, or the extension's fields when spec_info was not read yet.
StructuredLayer(a) ==
    IF IsNone(spec_info_memo[a]) THEN Layer(ext[a], FALSE) ELSE spec_info_memo[a].some

\* ret is the map that has, key by key, the structured value, else the
\* custom one, else the gathered one.
IsLayeredMerge(val, gathered, custom, structured) ==
    /\ DOMAIN val = DOMAIN gathered \cup DOMAIN custom \cup DOMAIN structured
    /\ \A key \in DOMAIN val :
        val[key] = IF key \in DOMAIN structured THEN structured[key]
                   ELSE IF key \in DOMAIN custom THEN custom[key]
                   ELSE gathered[key]

C5_Step ==
    \A a \in AssetIds :
        (IsNone(info_memo[a]) /\ ret'.op = "info" /\ ret'.asset = a) =>
            IsLayeredMerge(ret'.val, gathered_info[a], custom_info[a], StructuredLayer(a))

\* C5: the map info computes is the layered merge gathered < custom <
\* structured: every key has the structured value if the structured layer has
\* the key, else the custom value if custom has it, else the gathered value;
\* so without a structured value for a key that gathered and custom both
\* have, the custom value is the result.
C5_LayeredMerge == [][C5_Step]_vars

\* All three layers have k and the structured value won; m, held as JSON
\* text, came out decoded.
C5_Witness ==
    /\ ret.op = "info"
    /\ ret.asset = "a1"
    /\ "k" \in DOMAIN gathered_info["a1"]
    /\ "k" \in DOMAIN custom_info["a1"]
    /\ ext["a1"] = Some(Database(JsonStr("d"), JsonStr("d"), Str("p2"), Dict("e")))
    /\ info_memo["a1"] = Some(ret.val)
    /\ ret.val["k"] = JsonStr("d")
    /\ ret.val["m"] = Dict("d")

\* C6 as stated: info of an asset without a category extension is the empty
\* map, whatever gathered_info and custom_info hold.
C6_EmptyWithoutExtension ==
    [][\A a \in AssetIds :
        (IsNone(info_memo[a]) /\ IsNone(spec_info_memo[a]) /\ IsNone(ext[a])
            /\ ret'.op = "info" /\ ret'.asset = a) => ret'.val = EmptyMap]_vars

C6_Step ==
    \A a \in AssetIds :
        (IsNone(info_memo[a]) /\ IsNone(spec_info_memo[a]) /\ IsNone(ext[a])
            /\ ret'.op = "info" /\ ret'.asset = a) =>
                /\ spec_info_memo'[a] = Some(EmptyMap)
                /\ IsLayeredMerge(ret'.val, gathered_info[a], custom_info[a], EmptyMap)
                /\ ret'.val = EmptyMap <=>
                       (gathered_info[a] = EmptyMap /\ custom_info[a] = EmptyMap)

\* C6 amended: without a category extension the structured layer (spec_info)
\* is the empty map, and info is the merge of gathered_info and custom_info
\* alone, empty only when both of them are.
C6_StructuredLayerEmptyWithoutExtension == [][C6_Step]_vars

\* info was read on an asset without extension and is not empty.
C6_Witness ==
    /\ ret.op = "info"
    /\ ret.asset = "a1"
    /\ IsNone(ext["a1"])
    /\ spec_info_memo["a1"] = Some(EmptyMap)
    /\ info_memo["a1"] = Some(ret.val)
    /\ ret.val = [k |-> Str("c"), h |-> Str("g")]
    /\ gathered_info["a1"] = [k |-> Str("g"), h |-> Str("g")]
    /\ custom_info["a1"] = [k |-> Str("c")]

C7_Step ==
    \A a \in assets :
        (IsNone(secret_info_memo[a]) /\ ret'.op = "secret_info" /\ ret'.asset = a) =>
            /\ ret'.val = Layer(ext[a], TRUE)
            /\ IsNone(ext[a]) => ret'.val = EmptyMap
            /\ \A b \in assets :
                (IsNone(secret_info_memo[b]) /\ ext[b] = ext[a])
                    => secret_info(b) = ret'.val
            /\ IsNone(spec_info_memo[a]) =>
                DOMAIN ret'.val \cap DOMAIN spec_info(a) = {}

\* C7: the map secret_info computes holds exactly the encrypted fields of the
\* category extension, the asset back-pointer left out, and is empty without
\* an extension; it does not depend on gathered_info or custom_info: an
\* asset with the same extension gets the same map whatever its gathered and
\* custom data; and it shares no key with the structured layer of info.
C7_SecretInfoOnlyEncryptedFields == [][C7_Step]_vars

\* Two assets with the same extension and different gathered and custom data
\* were both read, and hold the same non-empty secret_info.
C7_Witness ==
    /\ ret.op = "secret_info"
    /\ ret.asset = "a1"
    /\ ext["a1"] = Some(Database(Str("s"), Dict("d"), Str("p1"), JsonStr("e")))
    /\ ext["a2"] = ext["a1"]
    /\ gathered_info["a1"] # gathered_info["a2"]
    /\ custom_info["a1"] # custom_info["a2"]
    /\ secret_info_memo["a2"] = Some(ret.val)
    /\ secret_info_memo["a1"] = Some(ret.val)
    /\ ret.val = [pw |-> Str("p1"), token |-> Dict("e")]

C10_Step ==
    \A a \in AssetIds :
        /\ ~IsNone(info_memo[a]) =>
            /\ info_memo'[a] = info_memo[a] \/ IsNone(info_memo'[a])
            /\ (ret'.op = "info" /\ ret'.asset = a) => ret'.val = info_memo[a].some
        /\ (IsNone(info_memo[a]) /\ IsNone(spec_info_memo[a])
                /\ ret'.op = "info" /\ ret'.asset = a) =>
            ret'.val = Update(Update(gathered_info[a], custom_info[a]),
                              Layer(ext[a], FALSE))

\* C10: once info was read on an instance, every later read on that instance
\* returns the map computed first, whatever was done since to gathered_info,
\* custom_info or the category extension; the stored map goes away only with
\* the instance, and a fresh instance returns the merge of the layers as they
\* are now.
C10_InfoMemoized == [][C10_Step]_vars

\* A read returned the stored map although the layers now merge to another.
C10_Witness ==
    /\ ret.op = "info"
    /\ ret.asset = "a1"
    /\ info_memo["a1"] = Some(ret.val)
    /\ ret.val # Update(Update(gathered_info["a1"], custom_info["a1"]),
                        Layer(ext["a1"], FALSE))

----------------------------------------------------------------------------
(* Claims on the classifier *)

\* C8: get_secret_type_assets returns, each once, exactly the existing
\* assets named in asset_ids that have a protocol whose entry in the static
\* table includes secret_type; an asset without protocols, or with none of
\* its protocol names in the table, is not returned, and neither is an asset
\* outside asset_ids.
C8_SecretTypeAssets ==
    ret.op = "get_secret_type_assets" =>
        LET eligible(a) == UNION {protocol_secret_types[name]
                                  : name \in protocols[a] \cap DOMAIN protocol_secret_types}
            expected == {a \in assets \cap ret.asset_ids : ret.secret_type \in eligible(a)}
        IN  /\ {ret.val[i] : i \in DOMAIN ret.val} = expected
            /\ Len(ret.val) = Cardinality(expected)

\* a1 has ssh, a2 has only vnc, a3 has ssh too but was not asked for:
\* password over {a1, a2} gave [a1].
C8_Witness ==
    /\ ret.op = "get_secret_type_assets"
    /\ ret.asset_ids = {"a1", "a2"}
    /\ ret.secret_type = "password"
    /\ assets = AssetIds
    /\ protocols = [a1 |-> {"ssh"}, a2 |-> {"vnc"}, a3 |-> {"ssh"}]
    /\ ret.val = <<"a1">>

====
